---- MODULE Spec2Model ----
(***************************************************************************)
(* Personal-Finance-App: the transaction service.                          *)
(*                                                                         *)
(* A CIBC export (rows of date,description,debit,credit) is read row by    *)
(* row into Transaction records; the aggregate functions of                *)
(* TransactionService are then called on the list that the reader          *)
(* returned.                                                               *)
(*                                                                         *)
(* Text is kept as sequences of one-character strings so that strip(),     *)
(* upper(), the substring test, strptime(), strftime() and Decimal() are   *)
(* computed character by character.  A Decimal is kept as an exact integer *)
(* number of cents (the amounts of the model have at most two fraction     *)
(* digits).  An Optional value is <<>> for None and <<v>> for the value v. *)
(***************************************************************************)
EXTENDS Integers, Sequences, FiniteSets, TLC

VARIABLES
    rows,               \* the rows csv.reader yields for the file
    q_year,             \* the request's year query parameter
    q_month,            \* the request's month query parameter
    pc,                 \* read_cibc_transactions: "reading", "returned", "raised"
    i,                  \* read_cibc_transactions: the rows the reader has yielded
    transactions,       \* read_cibc_transactions: its local list
    result,             \* what read_cibc_transactions returned (None before)
    CATEGORY_KEYWORDS,  \* the class-level table, as its ordered key list
    call,               \* the last TransactionService call on the result
    ret                 \* and the value it returned

vars == <<rows, q_year, q_month, pc, i, transactions, result, CATEGORY_KEYWORDS, call, ret>>

None == <<>>
Some(v) == <<v>>

-----------------------------------------------------------------------------
(* Bounds *)

MaxRows == 2

-----------------------------------------------------------------------------
(* str *)

LowerAlphabet ==
    <<"a","b","c","d","e","f","g","h","i","j","k","l","m",
      "n","o","p","q","r","s","t","u","v","w","x","y","z">>

UpperAlphabet ==
    <<"A","B","C","D","E","F","G","H","I","J","K","L","M",
      "N","O","P","Q","R","S","T","U","V","W","X","Y","Z">>

DigitChars == <<"0","1","2","3","4","5","6","7","8","9">>

IsDigit(c) == \E k \in 1..10 : DigitChars[k] = c

DigitVal(c) == (CHOOSE k \in 1..10 : DigitChars[k] = c) - 1

AllDigits(s) == \A k \in 1..Len(s) : IsDigit(s[k])

RECURSIVE NatVal(_)
NatVal(s) ==
    IF s = <<>> THEN 0
    ELSE 10 * NatVal(SubSeq(s, 1, Len(s) - 1)) + DigitVal(s[Len(s)])

UpperChar(c) ==
    IF \E k \in 1..26 : LowerAlphabet[k] = c
    THEN UpperAlphabet[CHOOSE k \in 1..26 : LowerAlphabet[k] = c]
    ELSE c

\* str.upper()
upper(s) == [k \in 1..Len(s) |-> UpperChar(s[k])]

\* keyword in description
Contains(keyword, s) ==
    \E k \in 0..(Len(s) - Len(keyword)) : SubSeq(s, k + 1, k + Len(keyword)) = keyword

\* str.strip()
RECURSIVE strip(_)
strip(s) ==
    IF s = <<>> THEN s
    ELSE IF s[1] = " " THEN strip(Tail(s))
    ELSE IF s[Len(s)] = " " THEN strip(SubSeq(s, 1, Len(s) - 1))
    ELSE s

\* zero-padded decimal numeral of n, at least width characters
RECURSIVE ZeroPad(_, _)
ZeroPad(n, width) ==
    IF width <= 1 /\ n < 10 THEN <<DigitChars[n + 1]>>
    ELSE ZeroPad(n \div 10, width - 1) \o <<DigitChars[(n % 10) + 1]>>

-----------------------------------------------------------------------------
(* datetime *)

IsLeap(y) == (y % 4 = 0 /\ y % 100 # 0) \/ y % 400 = 0

DaysInMonth(y, m) ==
    IF m = 2 THEN (IF IsLeap(y) THEN 29 ELSE 28)
    ELSE IF m \in {4, 6, 9, 11} THEN 30
    ELSE 31

\* the %m directive: 1[0-2] | 0[1-9] | [1-9]
MonthToken(s) ==
    /\ Len(s) \in {1, 2}
    /\ AllDigits(s)
    /\ NatVal(s) \in 1..12

\* the %d directive: 3[01] | [12]\d | 0[1-9] | [1-9] | " "[1-9]
DayToken(s) ==
    \/ Len(s) \in {1, 2} /\ AllDigits(s) /\ NatVal(s) \in 1..31
    \/ Len(s) = 2 /\ s[1] = " " /\ IsDigit(s[2]) /\ s[2] # "0"

DayVal(s) == IF s[1] = " " THEN NatVal(Tail(s)) ELSE NatVal(s)

\* datetime.strptime(s, '%Y-%m-%d'): the date, or None where it raises ValueError
strptime(s) ==
    LET dashes == {k \in 6..Len(s) : s[k] = "-"}
    IN  IF /\ Len(s) >= 8
           /\ AllDigits(SubSeq(s, 1, 4))
           /\ s[5] = "-"
           /\ dashes # {}
        THEN LET d2 == CHOOSE k \in dashes : \A j \in dashes : k <= j
                 ms == SubSeq(s, 6, d2 - 1)
                 ds == SubSeq(s, d2 + 1, Len(s))
             IN  IF /\ MonthToken(ms)
                    /\ ds # <<>>
                    /\ DayToken(ds)
                    /\ NatVal(SubSeq(s, 1, 4)) >= 1
                    /\ DayVal(ds) <= DaysInMonth(NatVal(SubSeq(s, 1, 4)), NatVal(ms))
                 THEN Some([year |-> NatVal(SubSeq(s, 1, 4)),
                            month |-> NatVal(ms),
                            day |-> DayVal(ds)])
                 ELSE None
        ELSE None

\* date.strftime('%Y'), '%m', '%d', '%Y-%m', '%Y-%m-%d'
strftime_Y(date) == ZeroPad(date.year, 4)
strftime_m(date) == ZeroPad(date.month, 2)
strftime_d(date) == ZeroPad(date.day, 2)
strftime_Ym(date) == strftime_Y(date) \o <<"-">> \o strftime_m(date)
strftime_Ymd(date) == strftime_Ym(date) \o <<"-">> \o strftime_d(date)

-----------------------------------------------------------------------------
(* Decimal *)

\* Decimal(s) for a plain numeral [sign] digits [. digits] or [sign] . digits:
\* the value in cents, or None where it raises InvalidOperation
Decimal(s) ==
    LET signed == s # <<>> /\ s[1] \in {"-", "+"}
        body   == IF signed THEN Tail(s) ELSE s
        dots   == {k \in 1..Len(body) : body[k] = "."}
        dot    == IF dots = {} THEN Len(body) + 1 ELSE CHOOSE k \in dots : TRUE
        int    == SubSeq(body, 1, dot - 1)
        frac   == SubSeq(body, dot + 1, Len(body))
        cents  == CASE Len(frac) = 0 -> 0
                    [] Len(frac) = 1 -> 10 * NatVal(frac)
                    [] Len(frac) = 2 -> NatVal(frac)
        mag    == 100 * NatVal(int) + cents
    IN  IF /\ Cardinality(dots) <= 1
           /\ AllDigits(int)
           /\ AllDigits(frac)
           /\ Len(int) + Len(frac) >= 1
        THEN Some(IF signed /\ s[1] = "-" THEN 0 - mag ELSE mag)
        ELSE None

\* truth value of an Optional[Decimal]: None and Decimal('0') are false
Truthy(amount) == amount # None /\ amount[1] # 0

\* float(Decimal): for the magnitudes of the model the nearest double
\* determines the decimal, so the double is named by it
float(d) == <<"float", d>>

-----------------------------------------------------------------------------
(* app/models/transaction.py *)

Transaction(date, description, debit_amount, credit_amount) ==
    [date |-> date, description |-> description,
     debit_amount |-> debit_amount, credit_amount |-> credit_amount]

\* variant: the debit is looked at before the credit
amount_DebitFirst(t) ==
    IF Truthy(t.debit_amount) THEN 0 - t.debit_amount[1]
    ELSE IF Truthy(t.credit_amount) THEN t.credit_amount[1]
    ELSE 0

\* Transaction.amount
amount(t) ==
    IF Truthy(t.credit_amount) THEN t.credit_amount[1]
    ELSE IF Truthy(t.debit_amount) THEN 0 - t.debit_amount[1]
    ELSE 0

-----------------------------------------------------------------------------
(* app/services/transaction_service.py: the class attributes *)

INVESTMENT_KEYWORDS ==
    << <<"W","E","A","L","T","H","S","I","M","P","L","E">>,
       <<"Q","U","E","S","T","R","A","D","E">>, <<"I","N","V","E","S","T","M","E","N","T">>,
       <<"E","D","W","A","R","D"," ","J","O","N","E","S">>,
       <<"T","F","E"," ","/"," ","E","F","T"," ","Q","U","E","S","T","R","A","D","E">>,
       <<"S","H","A","R","E","O","W","N","E","R">> >>

CategoryOrder ==
    << "Groceries", "Dining", "Transportation", "Shopping", "Bills & Utilities", "Entertainment", "Healthcare", "Education", "Investments", "Income", "Transfers" >>

CategoryKeywordList(c) ==
    CASE c = "Groceries" ->
        << <<"S","U","P","E","R","M","A","R","K","E","T">>, <<"T","&","T">>,
           <<"L","U","C","K","Y">>, <<"M","A","R","K","E","T">>, <<"C","O","S","T","C","O">>,
           <<"W","A","L","M","A","R","T">>, <<"H","E","N"," ","L","O","N","G">>,
           <<"P","R","O","D","U","C","E">>, <<"F","O","O","D">>, <<"G","R","O","C","E","R","Y">> >>
      [] c = "Dining" ->
        << <<"R","E","S","T","A","U","R","A","N","T">>, <<"C","A","F","E">>, <<"P","H","O">>,
           <<"D","I","N","I","N","G">>, <<"U","B","E","R","*","E","A","T","S">>,
           <<"U","B","E","R"," ","*"," ","E","A","T","S">>, <<"S","U","S","H","I">>,
           <<"B","A","R">>, <<"P","U","B">>, <<"T","H","A","I">>, <<"B","U","B","B","L","E">>,
           <<"T","E","A">>, <<"Y","I","F","A","N","G">>, <<"B","A","N","H">>,
           <<"M","I","L","K"," ","&"," ","S","U","G","A","R">>, <<"D","U","F","F","I","N">>,
           <<"D","O","N","U","T">>, <<"C","A","R","L","'","S"," ","J","R">> >>
      [] c = "Transportation" ->
        << <<"U","B","E","R">>, <<"C","O","M","P","A","S","S">>,
           <<"T","R","A","N","S","I","T">>, <<"P","A","R","K","I","N","G">>,
           <<"I","C","B","C">>, <<"A","T","M"," ","W","I","T","H","D","R","A","W","A","L">>,
           <<"G","A","S">>, <<"S","H","E","L","L">>,
           <<"C","A","N","A","D","I","A","N"," ","T","I","R","E">> >>
      [] c = "Shopping" ->
        << <<"W","A","L","M","A","R","T">>, <<"C","O","S","T","C","O">>,
           <<"R","E","T","A","I","L">>, <<"A","M","Z","N">>, <<"A","M","A","Z","O","N">>,
           <<"A","L","I","E","X","P","R","E","S","S">>,
           <<"S","P","O","R","T"," ","C","H","E","K">>, <<"S","T","O","R","E">>,
           <<"P","U","R","C","H","A","S","E">> >>
      [] c = "Bills & Utilities" ->
        << <<"B","I","L","L">>, <<"S","E","R","V","I","C","E"," ","C","H","A","R","G","E">>,
           <<"R","O","G","E","R","S">>, <<"I","N","S","U","R","A","N","C","E">>,
           <<"M","A","S","T","E","R","C","A","R","D">>,
           <<"N","E","T","W","O","R","K"," ","F","E","E">>, <<"P","H","O","N","E">>,
           <<"I","N","T","E","R","N","E","T">>, <<"U","T","I","L","I","T","I","E","S">>,
           <<"H","Y","D","R","O">>, <<"C","A","R","D"," ","P","R","O","D","U","C","T","S">> >>
      [] c = "Entertainment" ->
        << <<"M","O","V","I","E">>, <<"C","I","N","E","M","A">>,
           <<"T","H","E","A","T","R","E">>, <<"G","A","M","E">>, <<"S","P","O","R","T">>,
           <<"B","A","D","M","I","N","T","O","N">>,
           <<"E","N","T","E","R","T","A","I","N","M","E","N","T">>, <<"A","R","T">>,
           <<"G","A","L","L","E","R","Y">> >>
      [] c = "Healthcare" ->
        << <<"M","E","D","I","C","A","L">>, <<"D","E","N","T","A","L">>,
           <<"P","H","A","R","M","A","C","Y">>, <<"H","E","A","L","T","H">>,
           <<"C","L","I","N","I","C">>, <<"P","H","A","R","M","A","S","A","V","E">>,
           <<"D","R","U","G">>, <<"A","S","S","U","R","E"," ","H","E","A","L","T","H">> >>
      [] c = "Education" ->
        << <<"T","U","I","T","I","O","N">>, <<"S","C","H","O","O","L">>,
           <<"C","O","L","L","E","G","E">>, <<"U","N","I","V","E","R","S","I","T","Y">>,
           <<"B","C","I","T">>, <<"C","O","U","R","S","E">>, <<"E","X","A","M">>,
           <<"I","E","L","T","S">> >>
      [] c = "Investments" ->
        INVESTMENT_KEYWORDS
      [] c = "Income" ->
        << <<"D","E","P","O","S","I","T">>, <<"P","A","Y","R","O","L","L">>,
           <<"R","E","F","U","N","D">>, <<"C","A","N","A","D","A"," ","L","I","F","E">>,
           <<"A","M","A","Z","O","N"," ","D","E","V","E","L","O","P","M","E","N","T">>,
           <<"F","U","L","F","I","L","L","M","E","N","T">>,
           <<"T","A","X"," ","R","E","F","U","N","D">>,
           <<"C","R","E","D","I","T"," ","M","E","M","O">>, <<"A","E","/","E","I">> >>
      [] c = "Transfers" ->
        << <<"E","-","T","R","A","N","S","F","E","R">>, <<"T","R","A","N","S","F","E","R">>,
           <<"I","B","B">> >>

\* the keys of the class dictionary, in declaration order
Categories == {CategoryOrder[k] : k \in 1..Len(CategoryOrder)}

\* any(keyword.upper() in description.upper() for keyword in keywords)
AnyKeywordIn(keywords, description) ==
    \E k \in 1..Len(keywords) : Contains(upper(keywords[k]), upper(description))

-----------------------------------------------------------------------------
(* The files of the model: rows as csv.reader yields them *)

Row(date, description, debit, credit) == <<date, description, debit, credit>>

D_costco   == <<"C","O","S","T","C","O"," ","W","H","O","L","E","S","A","L","E">>
D_walmart  == <<"W","a","l","m","a","r","t"," ","S","t","o","r","e">>
D_quest    == <<"Q","U","E","S","T","R","A","D","E">>
D_wealth   == <<"W","e","a","l","t","h","s","i","m","p","l","e"," ",
                "T","r","a","n","s","f","e","r">>
D_payroll  == <<"P","A","Y","R","O","L","L"," ","D","E","P","O","S","I","T">>
D_xyz      == <<"X","Y","Z">>

GoodRows ==
    { Row(<<"2","0","2","4","-","0","1","-","0","2">>, D_costco, <<"4","5",".","1","0">>, <<>>),
      Row(<<"2","0","2","4","-","0","2","-","1","0">>, D_walmart, <<"2","0">>, <<>>),
      Row(<<"2","0","2","3","-","0","1","-","1","5">>, D_quest, <<"1","0","0",".","0","0">>, <<>>),
      Row(<<"2","0","2","4","-","0","1","-","2","0">>, D_wealth, <<>>, <<"5","0">>),
      Row(<<"2","0","2","4","-","1","-","5">>, D_xyz, <<" ","5"," ">>, <<"7">>),
      Row(<<"2","0","2","4","-","0","2","-","0","3">>, D_payroll, <<>>, <<" ">>),
      Row(<<"2","0","2","4","-","0","2","-","0","3">>, D_xyz, <<"0">>, <<"-","5">>) }

BadRows ==
    { Row(<<"2","0","2","4","-","1","3","-","0","1">>, D_xyz, <<"1">>, <<>>),
      Row(<<"2","0","2","4","-","0","2","-","3","0">>, D_costco, <<>>, <<"1">>),
      Row(<<"2","0","2","4","-","0","1","-","0","2">>, D_xyz, <<"a","b","c">>, <<>>),
      <<<<"2","0","2","4","-","0","1","-","0","2">>, D_xyz>> }

RowPool == GoodRows \cup BadRows

RECURSIVE SeqsUpTo(_, _)
SeqsUpTo(S, n) ==
    IF n = 0 THEN {<<>>}
    ELSE LET shorter == SeqsUpTo(S, n - 1)
         IN  shorter \cup {Append(q, x) : q \in {r \in shorter : Len(r) = n - 1}, x \in S}

Files == SeqsUpTo(RowPool, MaxRows)

\* the year and month query parameters: absent, empty, or a string
YearArgs == {None, Some(<<>>), Some(<<"2","0","2","4">>)}

MonthArgs == {None, Some(<<"0","1">>), Some(<<"1">>), Some(<<"1","3">>)}

\* truth value of an Optional[str]: None and '' are false
StrTruthy(s) == s # None /\ s[1] # <<>>

-----------------------------------------------------------------------------
(* app/services/transaction_service.py: the static methods *)

\* The descriptions of the model, and for each the keyword lists that hit it
\* (the substring tests are evaluated once per description)
DescriptionPool == {r[2] : r \in {q \in RowPool : Len(q) >= 2}}

InvestmentHits == {d \in DescriptionPool : AnyKeywordIn(INVESTMENT_KEYWORDS, d)}

CategoryHits ==
    [d \in DescriptionPool |->
        {c \in Categories : AnyKeywordIn(CategoryKeywordList(c), d)}]

\* is_investment_transaction(description)
is_investment_transaction(description) == description \in InvestmentHits

\* variant: a row that does not parse is skipped and the loop goes on
ReadStep_SkipBadRow(row, txs) ==
    IF Len(row) = 0 \/ strptime(row[1]) = None \/ Len(row) < 4
    THEN [pc |-> "reading", transactions |-> txs]
    ELSE LET debit_str  == strip(row[3])
             credit_str == strip(row[4])
         IN  IF \/ debit_str # <<>> /\ Decimal(debit_str) = None
                \/ credit_str # <<>> /\ Decimal(credit_str) = None
             THEN [pc |-> "reading", transactions |-> txs]
             ELSE [pc |-> "reading",
                   transactions |->
                       Append(txs,
                              Transaction(strptime(row[1])[1],
                                          row[2],
                                          IF debit_str # <<>> THEN Decimal(debit_str) ELSE None,
                                          IF credit_str # <<>> THEN Decimal(credit_str) ELSE None))]

\* one iteration of the reader's loop: the row is appended, or the loop is
\* left by the exception that strptime, the row index or Decimal raises
ReadStep(row, txs) ==
    IF Len(row) = 0 \/ strptime(row[1]) = None \/ Len(row) < 4
    THEN [pc |-> "raised", transactions |-> txs]
    ELSE LET debit_str  == strip(row[3])
             credit_str == strip(row[4])
         IN  IF \/ debit_str # <<>> /\ Decimal(debit_str) = None
                \/ credit_str # <<>> /\ Decimal(credit_str) = None
             THEN [pc |-> "raised", transactions |-> txs]
             ELSE [pc |-> "reading",
                   transactions |->
                       Append(txs,
                              Transaction(strptime(row[1])[1],
                                          row[2],
                                          IF debit_str # <<>> THEN Decimal(debit_str) ELSE None,
                                          IF credit_str # <<>> THEN Decimal(credit_str) ELSE None))]

RECURSIVE SumSeq(_)
SumSeq(s) == IF s = <<>> THEN 0 ELSE s[1] + SumSeq(Tail(s))

\* variant: the month is compared as a number
filter_transactions_by_date_NumericMonth(txs, year, month) ==
    IF ~StrTruthy(year) THEN txs
    ELSE LET filtered == SelectSeq(txs, LAMBDA t : strftime_Y(t.date) = year[1])
         IN  IF StrTruthy(month)
             THEN SelectSeq(filtered, LAMBDA t : t.date.month = NatVal(month[1]))
             ELSE filtered

\* filter_transactions_by_date(transactions, year, month)
filter_transactions_by_date(txs, year, month) ==
    IF ~StrTruthy(year) THEN txs
    ELSE LET filtered == SelectSeq(txs, LAMBDA t : strftime_Y(t.date) = year[1])
         IN  IF StrTruthy(month)
             THEN SelectSeq(filtered, LAMBDA t : strftime_m(t.date) = month[1])
             ELSE filtered

\* [t for t in filtered if not is_investment_transaction(t.description)]
WithoutInvestments(filtered, exclude_investments) ==
    IF exclude_investments
    THEN SelectSeq(filtered, LAMBDA t : ~is_investment_transaction(t.description))
    ELSE filtered

\* get_balance(transactions, year, month, exclude_investments)
get_balance(txs, year, month, exclude_investments) ==
    LET filtered == WithoutInvestments(filter_transactions_by_date(txs, year, month),
                                       exclude_investments)
    IN  SumSeq([k \in 1..Len(filtered) |-> amount(filtered[k])])

\* get_total_credits(transactions, year, month, exclude_investments)
get_total_credits(txs, year, month, exclude_investments) ==
    LET filtered == WithoutInvestments(filter_transactions_by_date(txs, year, month),
                                       exclude_investments)
        credited == SelectSeq(filtered, LAMBDA t : Truthy(t.credit_amount))
    IN  SumSeq([k \in 1..Len(credited) |-> credited[k].credit_amount[1]])

\* get_total_debits(transactions, year, month, exclude_investments)
get_total_debits(txs, year, month, exclude_investments) ==
    LET filtered == WithoutInvestments(filter_transactions_by_date(txs, year, month),
                                       exclude_investments)
        debited == SelectSeq(filtered, LAMBDA t : Truthy(t.debit_amount))
    IN  SumSeq([k \in 1..Len(debited) |-> debited[k].debit_amount[1]])

\* monthly_totals[month_key][field] += value, on a defaultdict
AddMonthly(monthly_totals, month_key, field, value) ==
    LET entry == IF month_key \in DOMAIN monthly_totals
                 THEN monthly_totals[month_key]
                 ELSE [credits |-> 0, debits |-> 0]
    IN  [k \in DOMAIN monthly_totals \cup {month_key} |->
            IF k = month_key THEN [entry EXCEPT ![field] = @ + value]
            ELSE monthly_totals[k]]

\* variant: the month's entry is created for every transaction
MonthlyStep_KeyAlways(monthly_totals, t) ==
    LET month_key == strftime_Ym(t.date)
        keyed     == AddMonthly(monthly_totals, month_key, "credits", 0)
        credited  == IF Truthy(t.credit_amount)
                     THEN AddMonthly(keyed, month_key, "credits", t.credit_amount[1])
                     ELSE keyed
    IN  IF Truthy(t.debit_amount)
        THEN AddMonthly(credited, month_key, "debits", t.debit_amount[1])
        ELSE credited

\* the body of the loop of analyze_monthly_spending
MonthlyStep(monthly_totals, t) ==
    LET month_key == strftime_Ym(t.date)
        credited  == IF Truthy(t.credit_amount)
                     THEN AddMonthly(monthly_totals, month_key, "credits", t.credit_amount[1])
                     ELSE monthly_totals
    IN  IF Truthy(t.debit_amount)
        THEN AddMonthly(credited, month_key, "debits", t.debit_amount[1])
        ELSE credited

RECURSIVE MonthlyLoop(_, _)
MonthlyLoop(filtered, monthly_totals) ==
    IF filtered = <<>> THEN monthly_totals
    ELSE MonthlyLoop(Tail(filtered), MonthlyStep(monthly_totals, filtered[1]))

\* analyze_monthly_spending(transactions, year, exclude_investments)
analyze_monthly_spending(txs, year, exclude_investments) ==
    MonthlyLoop(WithoutInvestments(filter_transactions_by_date(txs, year, None),
                                   exclude_investments),
                <<>>)

\* variant: the 'Investments' entry is never popped
CopyOfKeywords_KeepInvestments(table, exclude_investments) == table

\* category_keywords = CATEGORY_KEYWORDS.copy(), then pop('Investments', None)
\* when investments are excluded: the keys of the copy, in order
CopyOfKeywords(table, exclude_investments) ==
    IF exclude_investments
    THEN SelectSeq(table, LAMBDA c : c # "Investments")
    ELSE table

\* variant: the inner loop without its break, the last matching category wins
RECURSIVE FirstCategory_LastMatch(_, _)
FirstCategory_LastMatch(category_keywords, description) ==
    IF category_keywords = <<>> THEN None
    ELSE LET later == FirstCategory_LastMatch(Tail(category_keywords), description)
         IN  IF later # None THEN later
             ELSE IF category_keywords[1] \in CategoryHits[description]
                  THEN Some(category_keywords[1])
                  ELSE None

\* variant: the pop is done on the class table itself, without the copy
KeywordsAfterCall_PopInPlace(table, exclude_investments) ==
    CopyOfKeywords(table, exclude_investments)

\* the class table after analyze_spending_categories has run: the pop was
\* done on the copy, the table is as it was
KeywordsAfterCall(table, exclude_investments) == table

\* the inner loop of analyze_spending_categories: the first category of
\* category_keywords with a keyword in the description, None if the loop
\* ends without a break
RECURSIVE FirstCategory(_, _)
FirstCategory(category_keywords, description) ==
    IF category_keywords = <<>> THEN None
    ELSE IF category_keywords[1] \in CategoryHits[description]
         THEN Some(category_keywords[1])
         ELSE FirstCategory(Tail(category_keywords), description)

\* categories[key] += value, on a defaultdict(Decimal)
AddCategory(categories, key, value) ==
    [k \in DOMAIN categories \cup {key} |->
        IF k = key
        THEN (IF key \in DOMAIN categories THEN categories[key] ELSE 0) + value
        ELSE categories[k]]

\* variant: the credit amount is preferred to the debit amount
Magnitude_CreditFirst(t) ==
    IF Truthy(t.credit_amount) THEN t.credit_amount[1]
    ELSE IF Truthy(t.debit_amount) THEN t.debit_amount[1]
    ELSE 0

\* the magnitude analyze_spending_categories takes from a transaction
Magnitude(t) ==
    IF Truthy(t.debit_amount) THEN t.debit_amount[1]
    ELSE IF Truthy(t.credit_amount) THEN t.credit_amount[1]
    ELSE 0

\* variant: every uncategorized transaction is added to "Other"
CategoryStep_UnmatchedToOther(categories, category_keywords, t, exclude_investments) ==
    LET matched == FirstCategory(category_keywords, t.description)
    IN  IF Magnitude(t) = 0 THEN categories
        ELSE IF matched # None THEN AddCategory(categories, matched[1], Magnitude(t))
        ELSE AddCategory(categories, "Other", Magnitude(t))

\* the body of the outer loop of analyze_spending_categories
CategoryStep(categories, category_keywords, t, exclude_investments) ==
    LET matched == FirstCategory(category_keywords, t.description)
    IN  IF Magnitude(t) = 0 THEN categories
        ELSE IF matched # None THEN AddCategory(categories, matched[1], Magnitude(t))
        ELSE IF ~(exclude_investments /\ is_investment_transaction(t.description))
             THEN AddCategory(categories, "Other", Magnitude(t))
             ELSE categories

RECURSIVE CategoryLoop(_, _, _, _)
CategoryLoop(filtered, categories, category_keywords, exclude_investments) ==
    IF filtered = <<>> THEN categories
    ELSE CategoryLoop(Tail(filtered),
                      CategoryStep(categories, category_keywords, filtered[1],
                                   exclude_investments),
                      category_keywords, exclude_investments)

\* analyze_spending_categories(transactions, year, month, exclude_investments),
\* with the class table it reads
analyze_spending_categories(table, txs, year, month, exclude_investments) ==
    CategoryLoop(filter_transactions_by_date(txs, year, month),
                 <<>>,
                 CopyOfKeywords(table, exclude_investments),
                 exclude_investments)

\* float(x) if x else None
FloatOrNone(x) == IF Truthy(x) THEN Some(float(x[1])) ELSE None

\* variant: the monthly patterns are computed over the requested period
SummaryMonthlyInput_OfPeriod(txs, year, month) ==
    filter_transactions_by_date(txs, year, month)

\* the list get_spending_summary hands to analyze_monthly_spending
SummaryMonthlyInput(txs, year, month) == txs

\* variant: the totals are computed over all transactions
SummaryPeriodInput_Unfiltered(txs, year, month) == txs

\* the list get_spending_summary computes the totals and the breakdown over
SummaryPeriodInput(txs, year, month) ==
    filter_transactions_by_date(txs, year, month)

\* the 'monthly_patterns' entry of get_spending_summary
SummaryMonthlyPatterns(txs, year, month, exclude_investments) ==
    LET monthly_patterns == analyze_monthly_spending(SummaryMonthlyInput(txs, year, month),
                                                     None, exclude_investments)
    IN  [k \in DOMAIN monthly_patterns |->
            [credits |-> float(monthly_patterns[k].credits),
             debits |-> float(monthly_patterns[k].debits)]]

\* get_spending_summary(transactions, year, month, exclude_investments)
get_spending_summary(table, txs, year, month, exclude_investments) ==
    LET filtered_transactions == SummaryPeriodInput(txs, year, month)
        breakdown == analyze_spending_categories(table, filtered_transactions, None, None,
                                                 exclude_investments)
    IN  [total_balance |->
             float(get_balance(filtered_transactions, None, None, exclude_investments)),
         total_income |->
             float(get_total_credits(filtered_transactions, None, None, exclude_investments)),
         total_expenses |->
             float(get_total_debits(filtered_transactions, None, None, exclude_investments)),
         monthly_patterns |->
             SummaryMonthlyPatterns(txs, year, month, exclude_investments),
         category_breakdown |->
             [k \in DOMAIN breakdown |-> float(breakdown[k])],
         all_transactions |->
             [k \in 1..Len(txs) |->
                 [date |-> strftime_Ymd(txs[k].date),
                  description |-> txs[k].description,
                  debit_amount |-> FloatOrNone(txs[k].debit_amount),
                  credit_amount |-> FloatOrNone(txs[k].credit_amount)]]]

-----------------------------------------------------------------------------
(* The state machine: a request names a file and a period; the file is     *)
(* read, then the service is called on the list that was read              *)

Init ==
    /\ rows \in Files
    /\ q_year \in YearArgs
    /\ q_month \in MonthArgs
    /\ pc = "reading"
    /\ i = 0
    /\ transactions = <<>>
    /\ result = None
    /\ CATEGORY_KEYWORDS = CategoryOrder
    /\ call = [op |-> "none"]
    /\ ret = None

\* for row in reader: the row parses and is appended
ReadRow ==
    /\ pc = "reading"
    /\ i < Len(rows)
    /\ LET step == ReadStep(rows[i + 1], transactions)
       IN  /\ step.pc = "reading"
           /\ transactions' = step.transactions
    /\ i' = i + 1
    /\ UNCHANGED <<rows, q_year, q_month, pc, result, CATEGORY_KEYWORDS, call, ret>>

\* for row in reader: the row raises, the exception leaves the function
ReadRowRaise ==
    /\ pc = "reading"
    /\ i < Len(rows)
    /\ LET step == ReadStep(rows[i + 1], transactions)
       IN  /\ step.pc = "raised"
           /\ transactions' = step.transactions
    /\ i' = i + 1
    /\ pc' = "raised"
    /\ UNCHANGED <<rows, q_year, q_month, result, CATEGORY_KEYWORDS, call, ret>>

\* return transactions
ReadReturn ==
    /\ pc = "reading"
    /\ i = Len(rows)
    /\ pc' = "returned"
    /\ result' = Some(transactions)
    /\ UNCHANGED <<rows, q_year, q_month, i, transactions, CATEGORY_KEYWORDS, call, ret>>

CallFilter ==
    /\ pc = "returned"
    /\ call' = [op |-> "filter_transactions_by_date", year |-> q_year, month |-> q_month]
    /\ ret' = filter_transactions_by_date(result[1], q_year, q_month)
    /\ UNCHANGED <<rows, q_year, q_month, pc, i, transactions, result, CATEGORY_KEYWORDS>>

CallGetBalance ==
    /\ pc = "returned"
    /\ \E exclude_investments \in BOOLEAN :
        /\ call' = [op |-> "get_balance", year |-> q_year, month |-> q_month,
                    exclude_investments |-> exclude_investments]
        /\ ret' = get_balance(result[1], q_year, q_month, exclude_investments)
    /\ UNCHANGED <<rows, q_year, q_month, pc, i, transactions, result, CATEGORY_KEYWORDS>>

CallGetTotalCredits ==
    /\ pc = "returned"
    /\ \E exclude_investments \in BOOLEAN :
        /\ call' = [op |-> "get_total_credits", year |-> q_year, month |-> q_month,
                    exclude_investments |-> exclude_investments]
        /\ ret' = get_total_credits(result[1], q_year, q_month, exclude_investments)
    /\ UNCHANGED <<rows, q_year, q_month, pc, i, transactions, result, CATEGORY_KEYWORDS>>

CallGetTotalDebits ==
    /\ pc = "returned"
    /\ \E exclude_investments \in BOOLEAN :
        /\ call' = [op |-> "get_total_debits", year |-> q_year, month |-> q_month,
                    exclude_investments |-> exclude_investments]
        /\ ret' = get_total_debits(result[1], q_year, q_month, exclude_investments)
    /\ UNCHANGED <<rows, q_year, q_month, pc, i, transactions, result, CATEGORY_KEYWORDS>>

CallAnalyzeMonthly ==
    /\ pc = "returned"
    /\ \E exclude_investments \in BOOLEAN :
        /\ call' = [op |-> "analyze_monthly_spending", year |-> q_year,
                    exclude_investments |-> exclude_investments]
        /\ ret' = analyze_monthly_spending(result[1], q_year, exclude_investments)
    /\ UNCHANGED <<rows, q_year, q_month, pc, i, transactions, result, CATEGORY_KEYWORDS>>

CallAnalyzeCategories ==
    /\ pc = "returned"
    /\ \E exclude_investments \in BOOLEAN :
        /\ call' = [op |-> "analyze_spending_categories", year |-> q_year, month |-> q_month,
                    exclude_investments |-> exclude_investments]
        /\ ret' = analyze_spending_categories(CATEGORY_KEYWORDS, result[1], q_year, q_month,
                                              exclude_investments)
        /\ CATEGORY_KEYWORDS' = KeywordsAfterCall(CATEGORY_KEYWORDS, exclude_investments)
    /\ UNCHANGED <<rows, q_year, q_month, pc, i, transactions, result>>

CallGetSpendingSummary ==
    /\ pc = "returned"
    /\ \E exclude_investments \in BOOLEAN :
        /\ call' = [op |-> "get_spending_summary", year |-> q_year, month |-> q_month,
                    exclude_investments |-> exclude_investments]
        /\ ret' = get_spending_summary(CATEGORY_KEYWORDS, result[1], q_year, q_month,
                                       exclude_investments)
        /\ CATEGORY_KEYWORDS' = KeywordsAfterCall(CATEGORY_KEYWORDS, exclude_investments)
    /\ UNCHANGED <<rows, q_year, q_month, pc, i, transactions, result>>

Next ==
    \/ ReadRow
    \/ ReadRowRaise
    \/ ReadReturn
    \/ CallFilter
    \/ CallGetBalance
    \/ CallGetTotalCredits
    \/ CallGetTotalDebits
    \/ CallAnalyzeMonthly
    \/ CallAnalyzeCategories
    \/ CallGetSpendingSummary

Spec == Init /\ [][Next]_vars

-----------------------------------------------------------------------------
(* Vocabulary of the properties, stated on the transactions themselves *)

\* the (year, month) window, as a predicate on one transaction
InPeriod(t, yr, mo) ==
    \/ ~StrTruthy(yr)
    \/ /\ strftime_Y(t.date) = yr[1]
       /\ StrTruthy(mo) => strftime_m(t.date) = mo[1]

\* present and non-zero
NonZero(a) == a # None /\ a[1] # 0

\* debit if present and non-zero, else credit if present and non-zero, else 0
MagnitudeOf(t) ==
    IF NonZero(t.debit_amount) THEN t.debit_amount[1]
    ELSE IF NonZero(t.credit_amount) THEN t.credit_amount[1]
    ELSE 0

RECURSIVE SumOver(_, _)
SumOver(S, f) ==
    IF S = {} THEN 0
    ELSE LET x == CHOOSE y \in S : TRUE
         IN  f[x] + SumOver(S \ {x}, f)

\* the declaration order of the category table
DeclaredOrder ==
    <<"Groceries", "Dining", "Transportation", "Shopping", "Bills & Utilities",
      "Entertainment", "Healthcare", "Education", "Investments", "Income", "Transfers">>

Position(c) == CHOOSE k \in 1..Len(DeclaredOrder) : DeclaredOrder[k] = c

\* the categories of the active table that have a keyword in the description
Matching(description, exclude_investments) ==
    {c \in Categories :
        /\ ~(exclude_investments /\ c = "Investments")
        /\ AnyKeywordIn(CategoryKeywordList(c), description)}

MatchingOfPool ==
    [d \in DescriptionPool |-> [e \in BOOLEAN |-> Matching(d, e)]]

\* the earliest-declared matching category, "Other" when there is none
BucketOf(t, exclude_investments) ==
    LET m == MatchingOfPool[t.description][exclude_investments]
    IN  IF m = {} THEN "Other"
        ELSE CHOOSE c \in m : \A c2 \in m : Position(c) <= Position(c2)

InvestmentsOfPool == {d \in DescriptionPool : AnyKeywordIn(INVESTMENT_KEYWORDS, d)}

\* an investment transaction: an investment keyword is in its description
IsInvestment(t) == t.description \in InvestmentsOfPool

\* dropped: no category of the active table matches, investments are
\* excluded and the transaction is an investment transaction
IsDropped(t, exclude_investments) ==
    /\ MatchingOfPool[t.description][exclude_investments] = {}
    /\ exclude_investments
    /\ IsInvestment(t)

\* the transactions analyze_spending_categories has to count, by position
Counted(txs, yr, mo, exclude_investments) ==
    {k \in 1..Len(txs) :
        /\ InPeriod(txs[k], yr, mo)
        /\ MagnitudeOf(txs[k]) # 0
        /\ ~IsDropped(txs[k], exclude_investments)}

MagnitudesOf(txs) == [k \in 1..Len(txs) |-> MagnitudeOf(txs[k])]

-----------------------------------------------------------------------------
(* C1 *)

\* C1: get_balance equals get_total_credits minus get_total_debits for every
\* transaction list, period and exclude_investments value, rows with both a
\* debit and a credit included.
C1_BalanceIsCreditsMinusDebits ==
    call.op = "get_balance" =>
        ret = get_total_credits(result[1], call.year, call.month, call.exclude_investments)
              - get_total_debits(result[1], call.year, call.month, call.exclude_investments)

-----------------------------------------------------------------------------
(* C2 *)

\* C2: the values analyze_spending_categories returns (with "Other") sum to
\* the magnitudes of the period's non-zero transactions that are not
\* dropped, and each of those transactions is counted in exactly one
\* bucket: the returned keys are exactly their buckets.
C2_CategoryTotalsSum ==
    call.op = "analyze_spending_categories" =>
        LET txs == result[1]
            counted == Counted(txs, call.year, call.month, call.exclude_investments)
        IN  /\ SumOver(DOMAIN ret, ret) = SumOver(counted, MagnitudesOf(txs))
            /\ DOMAIN ret = {BucketOf(txs[k], call.exclude_investments) : k \in counted}

\* C2 witness: a call that excludes investments over a period holding a
\* dropped transaction and two counted ones of different buckets
C2_Witness ==
    /\ call.op = "analyze_spending_categories"
    /\ call.exclude_investments
    /\ LET txs == result[1]
           counted == Counted(txs, call.year, call.month, TRUE)
       IN  /\ \E k \in 1..Len(txs) :
                /\ InPeriod(txs[k], call.year, call.month)
                /\ MagnitudeOf(txs[k]) # 0
                /\ IsDropped(txs[k], TRUE)
           /\ Cardinality(DOMAIN ret) >= 1
           /\ counted # {}

-----------------------------------------------------------------------------
(* C3 *)

\* C3: a non-zero transaction that matches no category of the active table
\* is added to "Other", unless investments are excluded and it is an
\* investment transaction: then it is added to no bucket at all.  Without
\* the exclusion every unmatched non-zero transaction goes to "Other".
C3_UnmatchedToOtherOrDropped ==
    call.op = "analyze_spending_categories" =>
        LET txs == result[1]
            excl == call.exclude_investments
            nonzero == {k \in 1..Len(txs) :
                            /\ InPeriod(txs[k], call.year, call.month)
                            /\ MagnitudeOf(txs[k]) # 0}
            unmatched == {k \in nonzero : MatchingOfPool[txs[k].description][excl] = {}}
            toOther == {k \in unmatched : ~(excl /\ IsInvestment(txs[k]))}
        IN  /\ "Other" \in DOMAIN ret <=> toOther # {}
            /\ "Other" \in DOMAIN ret =>
                   ret["Other"] = SumOver(toOther, MagnitudesOf(txs))
            /\ ~excl => toOther = unmatched
            /\ nonzero \ (unmatched \ toOther) = {} => ret = <<>>

\* C3 witness: investments excluded, and the period holds both an unmatched
\* investment transaction and an unmatched ordinary one
C3_Witness ==
    /\ call.op = "analyze_spending_categories"
    /\ call.exclude_investments
    /\ LET txs == result[1]
           unmatched == {k \in 1..Len(txs) :
                            /\ InPeriod(txs[k], call.year, call.month)
                            /\ MagnitudeOf(txs[k]) # 0
                            /\ MatchingOfPool[txs[k].description][TRUE] = {}}
       IN  /\ \E k \in unmatched : IsInvestment(txs[k])
           /\ \E k \in unmatched : ~IsInvestment(txs[k])
    /\ DOMAIN ret = {"Other"}

-----------------------------------------------------------------------------
(* C4 *)

WALMART == <<"W","A","L","M","A","R","T">>
COSTCO  == <<"C","O","S","T","C","O">>

\* C4: classification is first-match-wins in the declaration order of the
\* (active) category table: every category total is the sum of the
\* magnitudes of the transactions whose earliest-declared matching category
\* it is, whatever later categories match too; a description containing
\* WALMART or COSTCO is credited to Groceries, never to Shopping.
C4_FirstMatchWins ==
    call.op = "analyze_spending_categories" =>
        LET txs == result[1]
            excl == call.exclude_investments
            counted == Counted(txs, call.year, call.month, excl)
            grocers == {k \in counted :
                            \/ Contains(WALMART, upper(txs[k].description))
                            \/ Contains(COSTCO, upper(txs[k].description))}
        IN  /\ CATEGORY_KEYWORDS = DeclaredOrder
            /\ \A c \in DOMAIN ret :
                   ret[c] = SumOver({k \in counted : BucketOf(txs[k], excl) = c},
                                    MagnitudesOf(txs))
            /\ grocers # {} => "Groceries" \in DOMAIN ret
            /\ grocers = counted => "Shopping" \notin DOMAIN ret

\* C4 witness: a counted transaction whose description (Walmart Store) has
\* keywords of Groceries and of later categories, credited to Groceries
C4_Witness ==
    /\ call.op = "analyze_spending_categories"
    /\ LET txs == result[1]
           counted == Counted(txs, call.year, call.month, call.exclude_investments)
       IN  \E k \in counted :
              /\ Contains(WALMART, upper(txs[k].description))
              /\ Cardinality(MatchingOfPool[txs[k].description][call.exclude_investments]) >= 3
    /\ DOMAIN ret = {"Groceries"}

-----------------------------------------------------------------------------
(* C5 *)

\* the transactions of the period that survive the investment filter
Survivors(txs, yr, mo, exclude_investments) ==
    {k \in 1..Len(txs) :
        /\ InPeriod(txs[k], yr, mo)
        /\ ~(exclude_investments /\ IsInvestment(txs[k]))}

\* an absent amount counts as 0
OrZero(a) == IF a = None THEN 0 ELSE a[1]

CreditsOf(txs) == [k \in 1..Len(txs) |-> OrZero(txs[k].credit_amount)]
DebitsOf(txs) == [k \in 1..Len(txs) |-> OrZero(txs[k].debit_amount)]

\* C5: get_spending_summary reports total_balance, total_income,
\* total_expenses and category_breakdown as get_balance, get_total_credits,
\* get_total_debits and analyze_spending_categories give them for the
\* requested period, that is over the period-filtered transactions only;
\* when no transaction is of the requested year the totals are zero and the
\* breakdown is empty.
C5_SummaryOverPeriod ==
    call.op = "get_spending_summary" =>
        LET txs == result[1]
            excl == call.exclude_investments
            kept == Survivors(txs, call.year, call.month, excl)
            breakdown == analyze_spending_categories(CATEGORY_KEYWORDS, txs, call.year,
                                                     call.month, excl)
        IN  /\ ret.total_balance = float(get_balance(txs, call.year, call.month, excl))
            /\ ret.total_income = float(get_total_credits(txs, call.year, call.month, excl))
            /\ ret.total_expenses = float(get_total_debits(txs, call.year, call.month, excl))
            /\ ret.total_income = float(SumOver(kept, CreditsOf(txs)))
            /\ ret.total_expenses = float(SumOver(kept, DebitsOf(txs)))
            /\ DOMAIN ret.category_breakdown = DOMAIN breakdown
            /\ \A c \in DOMAIN breakdown : ret.category_breakdown[c] = float(breakdown[c])
            /\ (/\ StrTruthy(call.year)
                /\ \A k \in 1..Len(txs) : strftime_Y(txs[k].date) # call.year[1])
               => /\ ret.total_balance = float(0)
                  /\ ret.total_income = float(0)
                  /\ ret.total_expenses = float(0)
                  /\ ret.category_breakdown = <<>>

\* C5 witness: a summary for a year that one transaction is of and another
\* is not, and the totals are those of the first alone
C5_Witness ==
    /\ call.op = "get_spending_summary"
    /\ StrTruthy(call.year)
    /\ ~call.exclude_investments
    /\ Len(result[1]) = 2
    /\ InPeriod(result[1][1], call.year, call.month)
    /\ ~InPeriod(result[1][2], call.year, call.month)
    /\ MagnitudeOf(result[1][1]) # 0
    /\ MagnitudeOf(result[1][2]) # 0
    /\ ret.total_balance = float(amount(result[1][1]))

-----------------------------------------------------------------------------
(* C6 *)

\* C6: the monthly_patterns of get_spending_summary do not depend on the
\* requested year and month: every choice of them gives the patterns of this
\* call, which are analyze_monthly_spending over the whole list (investment
\* filter only); all_transactions lists every input transaction in order.
C6_MonthlyPatternsIgnorePeriod ==
    call.op = "get_spending_summary" =>
        LET txs == result[1]
            excl == call.exclude_investments
            monthly == analyze_monthly_spending(txs, None, excl)
        IN  /\ \A yr \in YearArgs, mo \in MonthArgs :
                   SummaryMonthlyPatterns(txs, yr, mo, excl) = ret.monthly_patterns
            /\ DOMAIN ret.monthly_patterns = DOMAIN monthly
            /\ \A key \in DOMAIN monthly :
                   /\ ret.monthly_patterns[key].credits = float(monthly[key].credits)
                   /\ ret.monthly_patterns[key].debits = float(monthly[key].debits)
            /\ Len(ret.all_transactions) = Len(txs)
            /\ \A k \in 1..Len(txs) :
                   /\ ret.all_transactions[k].date = strftime_Ymd(txs[k].date)
                   /\ ret.all_transactions[k].description = txs[k].description

\* C6 witness: a summary for a year and month of which no transaction is,
\* with a monthly pattern and an echoed transaction all the same
C6_Witness ==
    /\ call.op = "get_spending_summary"
    /\ StrTruthy(call.year)
    /\ StrTruthy(call.month)
    /\ \A k \in 1..Len(result[1]) : ~InPeriod(result[1][k], call.year, call.month)
    /\ ret.monthly_patterns # <<>>
    /\ Len(ret.all_transactions) = 2

-----------------------------------------------------------------------------
(* C7 *)

\* the j-th smallest element of a set of positions
Nth(S, j) == CHOOSE k \in S : Cardinality({k2 \in S : k2 <= k}) = j

\* C7: without a year filter_transactions_by_date returns its input (a month
\* alone is ignored); with a year it returns, in the original order, exactly
\* the transactions whose %Y string is the year and, if a month is given,
\* whose %m string is the month; a month such as "13" or an unpadded "1"
\* gives the empty list.
C7_FilterByDate ==
    call.op = "filter_transactions_by_date" =>
        LET txs == result[1]
            given == call.year # None /\ call.year[1] # <<>>
            keep == {k \in 1..Len(txs) :
                        /\ strftime_Y(txs[k].date) = call.year[1]
                        /\ (call.month # None /\ call.month[1] # <<>>)
                               => strftime_m(txs[k].date) = call.month[1]}
        IN  /\ ~given => ret = txs
            /\ given =>
                   /\ Len(ret) = Cardinality(keep)
                   /\ \A j \in 1..Len(ret) : ret[j] = txs[Nth(keep, j)]
            /\ (given /\ call.month \in {Some(<<"1","3">>), Some(<<"1">>)}) => ret = <<>>

\* C7 witness: a year and a month are given, the second of two transactions
\* is kept and the first is not
C7_Witness ==
    /\ call.op = "filter_transactions_by_date"
    /\ StrTruthy(call.year)
    /\ StrTruthy(call.month)
    /\ Len(result[1]) = 2
    /\ ret = <<result[1][2]>>
    /\ result[1][1] # result[1][2]

-----------------------------------------------------------------------------
(* C8 *)

\* amount as the credit if present and non-zero, else the negated debit if
\* present, else zero
AmountLaw(t) ==
    amount(t) = IF NonZero(t.credit_amount) THEN t.credit_amount[1]
                ELSE IF t.debit_amount # None THEN 0 - t.debit_amount[1]
                ELSE 0

-----------------------------------------------------------------------------
(* C9 *)

MalformedAmount(field) == strip(field) # <<>> /\ Decimal(strip(field)) = None

\* a row the reader cannot turn into a Transaction
Malformed(row) ==
    \/ Len(row) < 4
    \/ strptime(row[1]) = None
    \/ MalformedAmount(row[3])
    \/ MalformedAmount(row[4])

\* C9: read_cibc_transactions is all-or-nothing: what it returns has one
\* Transaction per row, in file order, with empty debit and credit fields
\* absent; if any row has a malformed date or amount it returns nothing
\* (it raises); no row is skipped or reordered, no partial list returned.
C9_AllOrNothing ==
    /\ pc = "returned" => result # None
    /\ result # None =>
           /\ pc = "returned"
           /\ Len(result[1]) = Len(rows)
    /\ (result # None /\ call.op = "none") =>
           /\ \A k \in 1..Len(rows) :
                  /\ ~Malformed(rows[k])
                  /\ result[1][k].date = strptime(rows[k][1])[1]
                  /\ result[1][k].description = rows[k][2]
                  /\ result[1][k].debit_amount = None <=> strip(rows[k][3]) = <<>>
                  /\ result[1][k].credit_amount = None <=> strip(rows[k][4]) = <<>>
                  /\ result[1][k].debit_amount # None =>
                         result[1][k].debit_amount = Decimal(strip(rows[k][3]))
                  /\ result[1][k].credit_amount # None =>
                         result[1][k].credit_amount = Decimal(strip(rows[k][4]))
    /\ pc = "raised" =>
           /\ result = None
           /\ Malformed(rows[i])
    /\ (pc = "reading" /\ i < Len(rows) /\ Malformed(rows[i + 1])) => ~ENABLED ReadRow

\* C9 witness: the second row of a file is malformed; the reader has raised
\* after the first row was parsed, and nothing is returned
C9_Witness ==
    /\ pc = "raised"
    /\ i = 2
    /\ Len(transactions) = 1
    /\ result = None

-----------------------------------------------------------------------------
(* C10 *)

MonthlySums(txs, kept, key) ==
    LET ofMonth == {k \in kept : strftime_Ym(txs[k].date) = key}
    IN  [credits |-> SumOver(ofMonth, CreditsOf(txs)),
         debits |-> SumOver(ofMonth, DebitsOf(txs))]

\* C10 as stated: the keys of analyze_monthly_spending are exactly the
\* YYYY-MM values of the transactions that survive the year filter and the
\* investment filter, and each entry holds the sums of their credits and
\* debits (absent as 0).
C10_MonthlyKeysOfSurvivors ==
    call.op = "analyze_monthly_spending" =>
        LET txs == result[1]
            kept == Survivors(txs, call.year, None, call.exclude_investments)
        IN  /\ DOMAIN ret = {strftime_Ym(txs[k].date) : k \in kept}
            /\ \A key \in DOMAIN ret : ret[key] = MonthlySums(txs, kept, key)

\* C10 amended: the keys of analyze_monthly_spending are exactly the YYYY-MM
\* values of the surviving transactions that have a non-zero credit or a
\* non-zero debit (a month whose surviving transactions all have neither has
\* no key), and each entry holds the sums of the credits and debits (absent
\* as 0) of the surviving transactions of its month.
C10_MonthlyKeysOfNonZeroSurvivors ==
    call.op = "analyze_monthly_spending" =>
        LET txs == result[1]
            kept == Survivors(txs, call.year, None, call.exclude_investments)
            moved == {k \in kept : NonZero(txs[k].credit_amount) \/ NonZero(txs[k].debit_amount)}
        IN  /\ DOMAIN ret = {strftime_Ym(txs[k].date) : k \in moved}
            /\ \A key \in DOMAIN ret : ret[key] = MonthlySums(txs, kept, key)

\* C10 witness: two surviving transactions of different months, one with
\* neither debit nor credit; only the month of the other is a key
C10_Witness ==
    /\ call.op = "analyze_monthly_spending"
    /\ call.exclude_investments
    /\ StrTruthy(call.year)
    /\ Len(result[1]) = 2
    /\ Survivors(result[1], call.year, None, TRUE) = {1, 2}
    /\ MagnitudeOf(result[1][1]) # 0
    /\ result[1][2].credit_amount = None
    /\ result[1][2].debit_amount = None
    /\ DOMAIN ret = {strftime_Ym(result[1][1].date)}
    /\ strftime_Ym(result[1][2].date) \notin DOMAIN ret

-----------------------------------------------------------------------------
(* C11 *)

\* the non-zero transactions of the period that the full table credits to
\* Investments
CreditedToInvestments(txs, yr, mo) ==
    {k \in 1..Len(txs) :
        /\ InPeriod(txs[k], yr, mo)
        /\ MagnitudeOf(txs[k]) # 0
        /\ BucketOf(txs[k], FALSE) = "Investments"}

\* what one call of get_spending_summary must leave and give
PureSummaryStep ==
    call'.op = "get_spending_summary" =>
        /\ CATEGORY_KEYWORDS' = CATEGORY_KEYWORDS
        /\ CATEGORY_KEYWORDS' = DeclaredOrder
        /\ result' = result
        /\ ret' = get_spending_summary(DeclaredOrder, result[1], call'.year, call'.month,
                                       call'.exclude_investments)
        /\ (call.op = "get_spending_summary" /\ call' = call) => ret' = ret
        /\ (/\ call.op = "get_spending_summary"
            /\ call.exclude_investments
            /\ ~call'.exclude_investments)
           => LET invested == CreditedToInvestments(result[1], call'.year, call'.month)
              IN  invested # {} =>
                      /\ "Investments" \in DOMAIN ret'.category_breakdown
                      /\ ret'.category_breakdown["Investments"]
                             = float(SumOver(invested, MagnitudesOf(result[1])))

\* C11: get_spending_summary is pure: whatever calls were made before, with
\* whatever year, month and exclude_investments, a call leaves the class
\* table CATEGORY_KEYWORDS (its Investments entry included) and the list of
\* transactions as they were; so a call returns what the same call returned
\* before, and a call that includes investments made after one that excluded
\* them still credits the investment transactions to "Investments".
C11_SummaryIsPure == [][PureSummaryStep]_vars

\* C11 witness: a summary that includes investments, over a list with an
\* investment transaction; the table is whole and the transaction is
\* credited to "Investments"
C11_Witness ==
    /\ call.op = "get_spending_summary"
    /\ ~call.exclude_investments
    /\ CreditedToInvestments(result[1], call.year, call.month) # {}
    /\ "Investments" \in DOMAIN ret.category_breakdown
    /\ CATEGORY_KEYWORDS = DeclaredOrder

-----------------------------------------------------------------------------
(* C12 *)

\* the non-zero transactions of the period, by position
NonZeroOfPeriod(txs, yr, mo) ==
    {k \in 1..Len(txs) : InPeriod(txs[k], yr, mo) /\ MagnitudeOf(txs[k]) # 0}

\* the categories other than Investments with a keyword in the description
OtherMatches(t) == MatchingOfPool[t.description][TRUE]

\* the first category other than Investments that matches; "Other" if none
FallThrough(t) ==
    IF OtherMatches(t) = {} THEN "Other"
    ELSE CHOOSE c \in OtherMatches(t) : \A c2 \in OtherMatches(t) : Position(c) <= Position(c2)

\* the total under a key, 0 when the key is absent
ValueAt(totals, key) == IF key \in DOMAIN totals THEN totals[key] ELSE 0

\* C12 as stated: with investments excluded analyze_spending_categories
\* returns no "Investments" key, and every non-zero investment transaction
\* of the period is counted in exactly one bucket: the first category other
\* than Investments that its description matches, or "Other" if none does.
C12_InvestmentsFallThrough ==
    (call.op = "analyze_spending_categories" /\ call.exclude_investments) =>
        LET txs == result[1]
            nonzero == NonZeroOfPeriod(txs, call.year, call.month)
        IN  /\ "Investments" \notin DOMAIN ret
            /\ \A c \in Categories \cup {"Other"} :
                   ValueAt(ret, c) = SumOver({k \in nonzero : FallThrough(txs[k]) = c},
                                             MagnitudesOf(txs))
            /\ \A k \in nonzero : IsInvestment(txs[k]) => FallThrough(txs[k]) \in DOMAIN ret

\* C12 amended: with investments excluded analyze_spending_categories
\* returns no "Investments" key, and every non-zero investment transaction
\* of the period that matches a category other than Investments is counted
\* in exactly one bucket, the first such category; one that matches none is
\* counted in no bucket (not in "Other").
C12_InvestmentsFallThroughOrDrop ==
    (call.op = "analyze_spending_categories" /\ call.exclude_investments) =>
        LET txs == result[1]
            nonzero == NonZeroOfPeriod(txs, call.year, call.month)
            invested == {k \in nonzero : IsInvestment(txs[k])}
            ordinary == nonzero \ invested
            placed == {k \in invested : OtherMatches(txs[k]) # {}}
        IN  /\ "Investments" \notin DOMAIN ret
            /\ \A c \in Categories \cup {"Other"} :
                   ValueAt(ret, c) =
                       SumOver({k \in ordinary : FallThrough(txs[k]) = c}, MagnitudesOf(txs))
                       + SumOver({k \in placed : FallThrough(txs[k]) = c}, MagnitudesOf(txs))
            /\ \A k \in placed : FallThrough(txs[k]) \in DOMAIN ret
            /\ ordinary = {} => DOMAIN ret = {FallThrough(txs[k]) : k \in placed}

\* C12 witness: investments excluded; of two investment transactions one
\* (Wealthsimple Transfer) is counted under Transfers, the other
\* (QUESTRADE) matches nothing else and is in no bucket
C12_Witness ==
    /\ call.op = "analyze_spending_categories"
    /\ call.exclude_investments
    /\ Len(result[1]) = 2
    /\ NonZeroOfPeriod(result[1], call.year, call.month) = {1, 2}
    /\ IsInvestment(result[1][1])
    /\ IsInvestment(result[1][2])
    /\ OtherMatches(result[1][1]) # {}
    /\ OtherMatches(result[1][2]) = {}
    /\ DOMAIN ret = {"Transfers"}
    /\ ret["Transfers"] = MagnitudeOf(result[1][1])

====
